---- MODULE Spec2Model ----
(***************************************************************************)
(* A model of app.py, the ERA5 hourly map dashboard: the sidebar inputs,   *)
(* the helpers rda_url and find_var, the load stage (try/except), the      *)
(* colour-bar controls and the plot / animation stage of one script run.   *)
(*                                                                         *)
(* Names (vname, dataset keys) are sequences of one-character strings so   *)
(* that str.upper and str.replace are computed character by character.     *)
(* URLs, codes, labels are strings.  Unit labels are written in ASCII:     *)
(* "degC" for the degree sign + C, "m s-1" for the superscript forms.      *)
(* A time stamp of a file is the number of hours since the first hour of   *)
(* the file's month: (day - 1) * 24 + hour.                                *)
(***************************************************************************)
EXTENDS Integers, Sequences, FiniteSets, TLC

VARIABLES
    pc,              \* position of the script run
    steps,           \* the stages executed so far, in order
    field_type, choice, domain, code, vname, units, cmap, plevel,
    selected_date, animate, day_only, step_hours, selected_hour,
    target_datetime,
    url, ds, varname, da_all, da, da_anim,
    shown,           \* what the run has put on the page
    fig,             \* the figure handed to st.plotly_chart
    names,           \* the names the run has bound so far
    name_error       \* a statement read a name that was never bound

vars == <<pc, steps, field_type, choice, domain, code, vname, units, cmap,
          plevel, selected_date, animate, day_only, step_hours,
          selected_hour, target_datetime, url, ds, varname, da_all, da,
          da_anim, shown, fig, names, name_error>>

\* The value shown for a name that no statement has bound yet.  Whether a
\* name is bound is decided by the variable names, never by this value.
Unbound == "<unbound>"
\* Python's None, and a value that is not None
None == <<>>
Some(v) == <<v>>

-----------------------------------------------------------------------------
(* Bounds of the model *)

\* The years the date picker offers in the model: FirstYear .. FirstYear+NumYears-1
FirstYear == 1999
NumYears == 2
\* The script run draws its date from the first and the last day of month
\* RunMonth of year RunYear
RunYear == 2022
RunMonth == 1
\* How many entries of COMMON_PLEVELS the level selector offers in the model
NumLevels == 1
\* A truncated file holds only its first TruncHours hours
TruncHours == 18

-----------------------------------------------------------------------------
(* Constants of the program *)

COMMON_PLEVELS == <<975, 850, 700, 500, 250, 100, 50, 10>>

SURFACE ==
    [c \in {"Sea-surface temperature", "CAPE", "Surface geopotential",
            "Surface pressure", "Mean sea-level press.", "10-m zonal wind",
            "10-m meridional wind", "2-m temperature"} |->
       CASE c = "Sea-surface temperature" -> <<"sfc", "034", <<"s","s","t","k">>, "degC", "thermal">>
         [] c = "CAPE"                    -> <<"sfc", "059", <<"c","a","p","e">>, "J kg-1", "viridis">>
         [] c = "Surface geopotential"    -> <<"sfc", "129", <<"z">>, "m2 s-2", "magma">>
         [] c = "Surface pressure"        -> <<"sfc", "134", <<"s","p">>, "hPa", "icefire">>
         [] c = "Mean sea-level press."   -> <<"sfc", "151", <<"m","s","l">>, "hPa", "icefire">>
         [] c = "10-m zonal wind"         -> <<"sfc", "165", <<"1","0","u">>, "m s-1", "curl">>
         [] c = "10-m meridional wind"    -> <<"sfc", "166", <<"1","0","v">>, "m s-1", "curl_r">>
         [] c = "2-m temperature"         -> <<"sfc", "167", <<"2","t">>, "degC", "thermal">>]

PRESSURE ==
    [c \in {"Potential vorticity", "Geopotential", "Temperature", "Zonal wind",
            "Meridional wind", "Specific humidity", "Vertical velocity",
            "Relative vorticity", "Divergence", "Relative humidity", "Ozone"} |->
       CASE c = "Potential vorticity" -> <<"pl", "060", <<"p","v">>, "PVU", "plasma">>
         [] c = "Geopotential"        -> <<"pl", "129", <<"z">>, "m2 s-2", "magma">>
         [] c = "Temperature"         -> <<"pl", "130", <<"t">>, "K", "thermal">>
         [] c = "Zonal wind"          -> <<"pl", "131", <<"u">>, "m s-1", "curl">>
         [] c = "Meridional wind"     -> <<"pl", "132", <<"v">>, "m s-1", "curl_r">>
         [] c = "Specific humidity"   -> <<"pl", "133", <<"q">>, "kg kg-1", "viridis">>
         [] c = "Vertical velocity"   -> <<"pl", "135", <<"w">>, "Pa s-1", "icefire">>
         [] c = "Relative vorticity"  -> <<"pl", "138", <<"v","o">>, "s-1", "plasma">>
         [] c = "Divergence"          -> <<"pl", "155", <<"d">>, "s-1", "plasma">>
         [] c = "Relative humidity"   -> <<"pl", "157", <<"r">>, "%", "viridis">>
         [] c = "Ozone"               -> <<"pl", "203", <<"o","3">>, "kg kg-1", "viridis">>]

-----------------------------------------------------------------------------
(* Text helpers: what Python's str(), format "02d", upper and replace do *)

Digit(n) ==
    CASE n = 0 -> "0" [] n = 1 -> "1" [] n = 2 -> "2" [] n = 3 -> "3"
      [] n = 4 -> "4" [] n = 5 -> "5" [] n = 6 -> "6" [] n = 7 -> "7"
      [] n = 8 -> "8" [] n = 9 -> "9"

\* f"{n}" for n >= 0: the decimal digits, no padding
RECURSIVE IntStr(_)
IntStr(n) == IF n < 10 THEN Digit(n) ELSE IntStr(n \div 10) \o Digit(n % 10)

\* f"{n:02d}" for n >= 0: zero-padded to a width of at least two
Fmt02d(n) == IF n < 10 THEN "0" \o Digit(n) ELSE IntStr(n)

\* the characters of a name joined into one string
RECURSIVE Join(_)
Join(s) == IF s = <<>> THEN "" ELSE Head(s) \o Join(Tail(s))

Lower == <<"a","b","c","d","e","f","g","h","i","j","k","l","m",
           "n","o","p","q","r","s","t","u","v","w","x","y","z">>
Upper == <<"A","B","C","D","E","F","G","H","I","J","K","L","M",
           "N","O","P","Q","R","S","T","U","V","W","X","Y","Z">>

UpperChar(c) ==
    IF \E i \in 1..Len(Lower) : Lower[i] = c
    THEN Upper[CHOOSE i \in 1..Len(Lower) : Lower[i] = c]
    ELSE c

\* str.upper
StrUpper(s) == [i \in 1..Len(s) |-> UpperChar(s[i])]

StartsWith(s, old) ==
    Len(s) >= Len(old) /\ SubSeq(s, 1, Len(old)) = old

\* str.replace(old, new) for a non-empty old: left to right, non-overlapping
RECURSIVE StrReplace(_, _, _)
StrReplace(s, old, new) ==
    IF s = <<>> THEN <<>>
    ELSE IF StartsWith(s, old)
         THEN new \o StrReplace(SubSeq(s, Len(old) + 1, Len(s)), old, new)
         ELSE <<Head(s)>> \o StrReplace(Tail(s), old, new)

-----------------------------------------------------------------------------
(* Dates: datetime.date and calendar.monthrange *)

isleap(year) == year % 4 = 0 /\ (year % 100 # 0 \/ year % 400 = 0)

mdays == <<31, 28, 31, 30, 31, 30, 31, 31, 30, 31, 30, 31>>

\* a February that is never given its 29th day
last_day_no_leap(year, month) == mdays[month]

\* calendar.monthrange(year, month)[1]
last_day_of(year, month) ==
    mdays[month] + (IF month = 2 /\ isleap(year) THEN 1 ELSE 0)

Years == FirstYear .. (FirstYear + NumYears - 1)

\* the dates the date picker can return in the model
Dates ==
    {d \in [year : Years, month : 1..12, day : 1..31] :
        d.day <= last_day_of(d.year, d.month)}

-----------------------------------------------------------------------------
(* rda_url *)

base == "https://thredds.rda.ucar.edu/thredds/dodsC/files/g/d633000/"

\* rda_url with the day of a daily file written without zero padding
rda_url_unpadded_day(dom, cd, var, date) ==
    LET ym == IntStr(date.year) \o Fmt02d(date.month)
    IN  IF dom = "sfc"
        THEN base \o "e5.oper.an.sfc/" \o ym \o "/"
             \o "e5.oper.an.sfc.128_" \o cd \o "_" \o Join(var) \o ".ll025sc."
             \o ym \o "0100_" \o ym
             \o IntStr(last_day_of(date.year, date.month)) \o "23.nc"
        ELSE base \o "e5.oper.an.pl/" \o ym \o "/"
             \o "e5.oper.an.pl.128_" \o cd \o "_" \o Join(var) \o ".ll025"
             \o (IF var \in {<<"u">>, <<"v">>} THEN "uv" ELSE "sc") \o "."
             \o ym \o IntStr(date.day) \o "00_"
             \o ym \o IntStr(date.day) \o "23.nc"

rda_url(dom, cd, var, date) ==
    LET year  == date.year
        month == date.month
        day   == date.day
    IN  IF dom = "sfc"
        THEN LET last_day == last_day_of(year, month)
                 folder   == "e5.oper.an.sfc/" \o IntStr(year) \o Fmt02d(month) \o "/"
                 filename == "e5.oper.an.sfc.128_" \o cd \o "_" \o Join(var)
                             \o ".ll025sc."
                             \o IntStr(year) \o Fmt02d(month) \o "0100_"
                             \o IntStr(year) \o Fmt02d(month) \o IntStr(last_day)
                             \o "23.nc"
             IN  base \o folder \o filename
        ELSE LET extra    == IF var \in {<<"u">>, <<"v">>} THEN "uv" ELSE "sc"
                 folder   == "e5.oper.an.pl/" \o IntStr(year) \o Fmt02d(month) \o "/"
                 filename == "e5.oper.an.pl.128_" \o cd \o "_" \o Join(var)
                             \o ".ll025" \o extra \o "."
                             \o IntStr(year) \o Fmt02d(month) \o Fmt02d(day) \o "00_"
                             \o IntStr(year) \o Fmt02d(month) \o Fmt02d(day)
                             \o "23.nc"
             IN  base \o folder \o filename

-----------------------------------------------------------------------------
(* find_var *)

KeyError == <<"KeyError">>

\* the spellings tried, in the order of the for loop
Spellings(short) ==
    LET up == StrUpper(short)
    IN  <<up, <<"V","A","R","_">> \o up, StrReplace(up, <<"1","0">>, <<"1","0","M">>)>>

\* find_var trying the "10M" spelling before the "VAR_" spelling
find_var_reordered(keys, short) ==
    LET ks == Spellings(short)
    IN  IF ks[1] \in keys THEN ks[1]
        ELSE IF ks[3] \in keys THEN ks[3]
        ELSE IF ks[2] \in keys THEN ks[2]
        ELSE KeyError

\* ds is the set of keys of the dataset; the result is the key or KeyError
find_var(keys, short) ==
    LET ks == Spellings(short)
    IN  IF ks[1] \in keys THEN ks[1]
        ELSE IF ks[2] \in keys THEN ks[2]
        ELSE IF ks[3] \in keys THEN ks[3]
        ELSE KeyError

-----------------------------------------------------------------------------
(* The remote file behind a URL, as xr.open_dataset presents it *)

Hour(day, hour) == (day - 1) * 24 + hour

\* the hours a complete file holds: the month for "sfc", the day for "pl"
FileSpan(dom, date) ==
    IF dom = "sfc"
    THEN [i \in 1..(24 * last_day_of(date.year, date.month)) |-> i - 1]
    ELSE [i \in 1..24 |-> Hour(date.day, i - 1)]

Levels(dom) ==
    IF dom = "sfc" THEN {} ELSE {COMMON_PLEVELS[i] : i \in 1..Len(COMMON_PLEVELS)}

Prefix(s, n) == SubSeq(s, 1, IF n < Len(s) THEN n ELSE Len(s))

Nominal(dom, short, date) ==
    [keys   |-> {Spellings(short)[1]},
     time   |-> FileSpan(dom, date),
     level  |-> Levels(dom),
     lonlat |-> TRUE,
     year   |-> date.year,
     month  |-> date.month]

\* The datasets the server may answer with: the variable stored under any one
\* of the spellings, under all of them or under none; a file cut short; a
\* file without the requested level; a file without longitude/latitude.
Datasets(dom, short, date, lev) ==
    LET nom == Nominal(dom, short, date)
        ks  == Spellings(short)
    IN  {[nom EXCEPT !.keys = {ks[i]}] : i \in 1..3}
        \cup {[nom EXCEPT !.keys = {ks[1], ks[2], ks[3]}],
              [nom EXCEPT !.keys = {short}],
              [nom EXCEPT !.time = Prefix(nom.time, TruncHours)],
              [nom EXCEPT !.level = nom.level \ {lev[i] : i \in 1..Len(lev)}],
              [nom EXCEPT !.lonlat = FALSE]}

-----------------------------------------------------------------------------
(* xarray selections on the time axis *)

\* .sel(time=slice(start, end)): label based, both ends included
SelSlice(time, start, end) ==
    LET in(t) == start <= t /\ t <= end IN SelectSeq(time, in)

\* .isel(time=slice(None, None, step)): the positions range(0, len, step)
IselStep(time, step) ==
    [k \in 1..((Len(time) + step - 1) \div step) |-> time[(k - 1) * step + 1]]

Dist(a, b) == IF a < b THEN b - a ELSE a - b

\* .sel(time=t, method="nearest") on a non-empty axis: the position of the
\* closest label among positions lo..hi, the earlier one when two are
\* equally close
RECURSIVE NearestIn(_, _, _, _)
NearestIn(time, t, lo, hi) ==
    IF lo = hi THEN lo
    ELSE LET mid == (lo + hi) \div 2
             a   == NearestIn(time, t, lo, mid)
             b   == NearestIn(time, t, mid + 1, hi)
         IN  IF Dist(time[b], t) < Dist(time[a], t) THEN b ELSE a

SelNearest(time, t) == time[NearestIn(time, t, 1, Len(time))]

\* np.datetime_as_string(t, unit="h")
datetime_as_string(year, month, t, sep) ==
    IntStr(year) \o "-" \o Fmt02d(month) \o "-" \o Fmt02d((t \div 24) + 1)
    \o sep \o Fmt02d(t % 24)

-----------------------------------------------------------------------------
(* One run of the script *)

Bound(x) == x \in names

sidebar == <<field_type, choice, domain, code, vname, cmap, plevel,
             selected_date, animate, day_only, step_hours, selected_hour>>
loaded == <<url, ds, varname, da_all, da, da_anim>>
page == <<shown, fig>>

Bind(new) == names' = names \cup new

Init ==
    /\ pc = "field"
    /\ steps = <<>>
    /\ field_type = Unbound /\ choice = Unbound /\ domain = Unbound
    /\ code = Unbound /\ vname = Unbound /\ units = Unbound /\ cmap = Unbound
    /\ plevel = Unbound /\ selected_date = Unbound /\ animate = Unbound
    /\ day_only = Unbound /\ step_hours = Unbound /\ selected_hour = Unbound
    /\ target_datetime = Unbound
    /\ url = Unbound /\ ds = Unbound /\ varname = Unbound
    /\ da_all = Unbound /\ da = Unbound /\ da_anim = Unbound
    /\ shown = {} /\ fig = Unbound
    /\ names = {}
    /\ name_error = FALSE

\* A statement reads a name no statement bound: NameError.  Inside the try
\* block the except clause catches it, elsewhere the run dies.
NameError(in_try) ==
    /\ name_error' = TRUE
    /\ pc' = IF in_try THEN "except" ELSE "crashed"
    /\ UNCHANGED <<steps, sidebar, units, target_datetime, loaded, page, names>>

\* lines 43-53: domain radio, variable select box, level select box
PickField ==
    /\ pc = "field"
    /\ \/ /\ field_type' = "Surface"
          /\ \E c \in DOMAIN SURFACE :
               /\ choice' = c
               /\ domain' = SURFACE[c][1] /\ code' = SURFACE[c][2]
               /\ vname' = SURFACE[c][3] /\ units' = SURFACE[c][4]
               /\ cmap' = SURFACE[c][5]
          /\ plevel' = None
       \/ /\ field_type' = "Pressure level"
          /\ \E c \in DOMAIN PRESSURE :
               /\ choice' = c
               /\ domain' = PRESSURE[c][1] /\ code' = PRESSURE[c][2]
               /\ vname' = PRESSURE[c][3] /\ units' = PRESSURE[c][4]
               /\ cmap' = PRESSURE[c][5]
          /\ \E i \in 1..Len(COMMON_PLEVELS) :
               i <= NumLevels /\ plevel' = Some(COMMON_PLEVELS[i])
    /\ Bind({"field_type", "choice", "domain", "code", "vname", "units",
             "cmap", "plevel"})
    /\ pc' = "date"
    /\ steps' = Append(steps, "pick")
    /\ UNCHANGED <<selected_date, animate, day_only, step_hours, selected_hour,
                   target_datetime, loaded, page, name_error>>

RunDates ==
    {d \in [year : {RunYear}, month : {((RunMonth - 1) % 12) + 1}, day : 1..31] :
        d.day \in {1, last_day_of(d.year, d.month)}}

\* lines 55-86: date input, the animate check box and the controls of its mode
PickDateTime ==
    /\ pc = "date"
    /\ selected_date' \in RunDates
    /\ animate' \in BOOLEAN
    /\ IF animate'
       THEN /\ day_only' \in BOOLEAN
            /\ step_hours' \in 1..24
            /\ selected_hour' = None
            /\ Bind({"selected_date", "animate", "day_only", "step_hours",
                     "selected_hour"})
       ELSE /\ \E h \in 0..23 : selected_hour' = Some(h)
            /\ UNCHANGED <<day_only, step_hours>>
            /\ Bind({"selected_date", "animate", "selected_hour"})
    /\ pc' = "target"
    /\ UNCHANGED <<steps, field_type, choice, domain, code, vname, units, cmap,
                   plevel, target_datetime, loaded, page, name_error>>

\* lines 147-151
TargetDatetime ==
    /\ pc = "target"
    /\ IF ~animate
       THEN IF Bound("selected_hour")
            THEN /\ target_datetime' = Some([year  |-> selected_date.year,
                                             month |-> selected_date.month,
                                             day   |-> selected_date.day,
                                             hour  |-> selected_hour[1]])
                 /\ Bind({"target_datetime"})
                 /\ pc' = "url"
                 /\ UNCHANGED <<steps, sidebar, units, loaded, page, name_error>>
            ELSE NameError(FALSE)
       ELSE /\ target_datetime' = None
            /\ Bind({"target_datetime"})
            /\ pc' = "url"
            /\ UNCHANGED <<steps, sidebar, units, loaded, page, name_error>>

\* line 154
BuildUrl ==
    /\ pc = "url"
    /\ url' = rda_url(domain, code, vname, selected_date)
    /\ Bind({"url"})
    /\ pc' = "open"
    /\ steps' = Append(steps, "url")
    /\ UNCHANGED <<sidebar, units, target_datetime, ds, varname, da_all, da,
                   da_anim, page, name_error>>

\* line 155: the server answers with a dataset, or the open raises
OpenDataset ==
    /\ pc = "open"
    /\ \/ /\ ds' \in Datasets(domain, vname, selected_date, plevel)
          /\ Bind({"ds"})
          /\ pc' = "find"
          /\ steps' = Append(steps, "open")
       \/ /\ pc' = "except"
          /\ UNCHANGED <<ds, steps, names>>
    /\ UNCHANGED <<sidebar, units, target_datetime, url, varname, da_all, da,
                   da_anim, page, name_error>>

\* line 156
FindVar ==
    /\ pc = "find"
    /\ LET k == find_var(ds.keys, vname)
       IN  IF k = KeyError
           THEN /\ pc' = "except"
                /\ UNCHANGED <<varname, steps, names>>
           ELSE /\ varname' = k
                /\ Bind({"varname"})
                /\ pc' = "level"
                /\ steps' = Append(steps, "find")
    /\ UNCHANGED <<sidebar, units, target_datetime, url, ds, da_all, da,
                   da_anim, page, name_error>>

\* lines 158-160
SelectLevel ==
    /\ pc = "level"
    /\ LET all == [name |-> varname, time |-> ds.time, level |-> None,
                   ops |-> <<>>, lonlat |-> ds.lonlat,
                   year |-> ds.year, month |-> ds.month]
       IN  IF plevel # None
           THEN IF plevel[1] \in ds.level
                THEN /\ da_all' = [all EXCEPT !.level = plevel]
                     /\ Bind({"da_all"})
                     /\ pc' = "convert"
                     /\ steps' = Append(steps, "level")
                ELSE /\ pc' = "except"
                     /\ UNCHANGED <<da_all, steps, names>>
           ELSE /\ da_all' = all
                /\ Bind({"da_all"})
                /\ pc' = "convert"
                /\ steps' = Append(steps, "level")
    /\ UNCHANGED <<sidebar, units, target_datetime, url, ds, varname, da,
                   da_anim, page, name_error>>

\* the arithmetic of lines 162-168 on the array
ConvertOps(short) ==
    (IF short \in {<<"s","s","t","k">>, <<"2","t">>, <<"t">>}
     THEN <<"- 273.15">> ELSE <<>>)
    \o (IF short \in {<<"s","p">>, <<"m","s","l">>} THEN <<"/ 100.0">> ELSE <<>>)

\* the units label after lines 162-168
ConvertUnits(short, u) ==
    LET u1 == IF short \in {<<"s","s","t","k">>, <<"2","t">>, <<"t">>}
              THEN "degC" ELSE u
    IN  IF short \in {<<"s","p">>, <<"m","s","l">>} THEN "hPa" ELSE u1

\* lines 162-168
Convert ==
    /\ pc = "convert"
    /\ da_all' = [da_all EXCEPT !.ops = @ \o ConvertOps(vname)]
    /\ units' = ConvertUnits(vname, units)
    /\ pc' = "time"
    /\ steps' = Append(steps, "convert")
    /\ UNCHANGED <<sidebar, target_datetime, url, ds, varname, da, da_anim,
                   page, names, name_error>>

\* the day slice ending 24 hours after its start instead of 23
AnimTimesPlus24(time, date, only_day, step) ==
    IF only_day
    THEN IselStep(SelSlice(time, Hour(date.day, 0), Hour(date.day, 0) + 24), step)
    ELSE IselStep(time, step)

\* the time axis of da_anim, lines 171-177
AnimTimes(time, date, only_day, step) ==
    IF only_day
    THEN LET start == Hour(date.day, 0)
             end   == start + 23
         IN  IselStep(SelSlice(time, start, end), step)
    ELSE IselStep(time, step)

\* lines 170-179; .load() reads from the server and may raise
SelectTime ==
    /\ pc = "time"
    /\ \/ IF animate
          THEN IF Bound("day_only") /\ Bound("step_hours")
               THEN /\ da_anim' = [da_all EXCEPT !.time =
                                     AnimTimes(da_all.time, selected_date,
                                               day_only, step_hours)]
                    /\ Bind({"da_anim"})
                    /\ pc' = "colourbar"
                    /\ steps' = Append(steps, "time")
                    /\ UNCHANGED <<sidebar, units, target_datetime, url, ds,
                                   varname, da_all, da, page, name_error>>
               ELSE NameError(TRUE)
          ELSE IF Bound("target_datetime")
               THEN /\ IF da_all.time = <<>> \/ target_datetime = None
                       THEN /\ pc' = "except"
                            /\ UNCHANGED <<da, steps, names>>
                       ELSE /\ da' = [da_all EXCEPT !.time =
                                        <<SelNearest(da_all.time,
                                                     Hour(target_datetime[1].day,
                                                          target_datetime[1].hour))>>]
                            /\ Bind({"da"})
                            /\ pc' = "colourbar"
                            /\ steps' = Append(steps, "time")
                    /\ UNCHANGED <<sidebar, units, target_datetime, url, ds,
                                   varname, da_all, da_anim, page, name_error>>
               ELSE NameError(TRUE)
       \/ /\ pc' = "except"
          /\ UNCHANGED <<steps, sidebar, units, target_datetime, loaded, page,
                         names, name_error>>

\* the except clause without its st.stop(): the script goes on
ExceptWithoutStop ==
    /\ pc = "except"
    /\ shown' = shown \cup {"Failed to load data"}
    /\ pc' = "colourbar"
    /\ UNCHANGED <<steps, sidebar, units, target_datetime, loaded, fig,
                   names, name_error>>

\* lines 181-190: st.error, st.stop
Except ==
    /\ pc = "except"
    /\ shown' = shown \cup {"Failed to load data"}
    /\ pc' = "stopped"
    /\ UNCHANGED <<steps, sidebar, units, target_datetime, loaded, fig,
                   names, name_error>>

\* the colour-bar stage reading da in both modes
ColourBarReadsDa ==
    /\ pc = "colourbar"
    /\ IF ~Bound("da")
       THEN NameError(FALSE)
       ELSE /\ \/ /\ shown' = shown \cup {"Colour-bar limits"}
                  /\ pc' = "plot"
               \/ /\ shown' = shown \cup {"Colour-bar limits",
                                          "Min must be less than Max"}
                  /\ pc' = "stopped"
            /\ steps' = Append(steps, "limits")
            /\ UNCHANGED <<sidebar, units, target_datetime, loaded, fig,
                           names, name_error>>

\* lines 193-210: np.nanmin of an array without a time step raises; the
\* sliders (or the auto-scale button) give cmin < cmax or the run stops
ColourBar ==
    /\ pc = "colourbar"
    /\ LET arr_for_limits == IF animate THEN da_anim ELSE da
       IN  IF ~Bound(IF animate THEN "da_anim" ELSE "da")
           THEN NameError(FALSE)
           ELSE /\ IF arr_for_limits.time = <<>>
                   THEN /\ pc' = "crashed"
                        /\ UNCHANGED <<shown, steps>>
                   ELSE \/ /\ shown' = shown \cup {"Colour-bar limits"}
                           /\ pc' = "plot"
                           /\ steps' = Append(steps, "limits")
                        \/ /\ shown' = shown \cup {"Colour-bar limits",
                                                   "Min must be less than Max"}
                           /\ pc' = "stopped"
                           /\ steps' = Append(steps, "limits")
                /\ UNCHANGED <<sidebar, units, target_datetime, loaded, fig,
                               names, name_error>>

\* lines 213-230: the single image
PlotImage ==
    /\ pc = "plot"
    /\ ~animate
    /\ IF Bound("da") /\ Bound("selected_hour")
       THEN /\ \E show_coast \in BOOLEAN :
                 fig' = [kind   |-> "imshow",
                         time   |-> da.time,
                         ops    |-> da.ops,
                         colour |-> units,
                         scale  |-> cmap,
                         title  |-> <<choice,
                                      IntStr(selected_date.year) \o "-"
                                      \o Fmt02d(selected_date.month) \o "-"
                                      \o Fmt02d(selected_date.day) \o " "
                                      \o Fmt02d(selected_hour[1]) \o ":00 UTC">>
                                    \o (IF plevel # None
                                        THEN <<IntStr(plevel[1]) \o " hPa">>
                                        ELSE <<>>),
                         coast  |-> show_coast]
            /\ shown' = shown \cup {"figure"}
            /\ pc' = "caption"
            /\ steps' = Append(steps, "plot")
            /\ Bind({"fig"})
            /\ UNCHANGED <<sidebar, units, target_datetime, loaded, name_error>>
       ELSE NameError(FALSE)

\* lines 251-259: one frame per time step of da_anim
Frames(arr) ==
    [i \in 1..Len(arr.time) |->
        [name  |-> datetime_as_string(arr.year, arr.month, arr.time[i], "T"),
         label |-> datetime_as_string(arr.year, arr.month, arr.time[i], " "),
         z     |-> arr.time[i]]]

\* lines 232-322: the animation
PlotAnimation ==
    /\ pc = "plot"
    /\ animate
    /\ IF Bound("da_anim") /\ Bound("day_only")
       THEN IF ~da_anim.lonlat
            THEN /\ shown' = shown \cup {"Dataset missing latitude/longitude coordinates."}
                 /\ pc' = "stopped"
                 /\ UNCHANGED <<steps, sidebar, units, target_datetime, loaded,
                                fig, names, name_error>>
            ELSE /\ \E show_coast \in BOOLEAN :
                      LET frames == Frames(da_anim)
                      IN  fig' = [kind   |-> "animation",
                                  time   |-> <<da_anim.time[1]>>,
                                  ops    |-> da_anim.ops,
                                  colour |-> units,
                                  scale  |-> cmap,
                                  frames |-> frames,
                                  title  |-> <<choice>>
                                     \o (IF plevel # None
                                         THEN <<IntStr(plevel[1]) \o " hPa">>
                                         ELSE <<>>)
                                     \o (IF day_only
                                         THEN <<IntStr(selected_date.year) \o "-"
                                                \o Fmt02d(selected_date.month) \o "-"
                                                \o Fmt02d(selected_date.day)>>
                                         ELSE <<frames[1].label \o " -> "
                                                \o frames[Len(frames)].label>>)
                                     \o <<"Animation">>,
                                  coast  |-> show_coast]
                 /\ shown' = shown \cup {"figure"}
                 /\ pc' = "caption"
                 /\ steps' = Append(steps, "plot")
                 /\ Bind({"fig"})
                 /\ UNCHANGED <<sidebar, units, target_datetime, loaded,
                                name_error>>
       ELSE NameError(FALSE)

\* line 324
Caption ==
    /\ pc = "caption"
    /\ shown' = shown \cup {"caption"}
    /\ pc' = "done"
    /\ UNCHANGED <<steps, sidebar, units, target_datetime, loaded, fig,
                   names, name_error>>

\* Streamlit runs the script again from the top on the next interaction.
\* (A dataset cached by st.cache_resource would be served again for the same
\* URL; the model lets the server answer afresh, which includes that case.)
Rerun ==
    /\ pc \in {"done", "stopped", "crashed"}
    /\ pc' = "field"
    /\ steps' = <<>>
    /\ field_type' = Unbound /\ choice' = Unbound /\ domain' = Unbound
    /\ code' = Unbound /\ vname' = Unbound /\ units' = Unbound /\ cmap' = Unbound
    /\ plevel' = Unbound /\ selected_date' = Unbound /\ animate' = Unbound
    /\ day_only' = Unbound /\ step_hours' = Unbound /\ selected_hour' = Unbound
    /\ target_datetime' = Unbound
    /\ url' = Unbound /\ ds' = Unbound /\ varname' = Unbound
    /\ da_all' = Unbound /\ da' = Unbound /\ da_anim' = Unbound
    /\ shown' = {} /\ fig' = Unbound
    /\ names' = {}
    /\ name_error' = FALSE

Next ==
    \/ PickField \/ PickDateTime \/ TargetDatetime
    \/ BuildUrl \/ OpenDataset \/ FindVar \/ SelectLevel \/ Convert
    \/ SelectTime \/ Except
    \/ ColourBar \/ PlotImage \/ PlotAnimation \/ Caption
    \/ Rerun

Spec == Init /\ [][Next]_vars

-----------------------------------------------------------------------------
(* rda_url on its own: called with an entry of either table and any date of *)
(* the date picker                                                          *)

Entries == {SURFACE[c] : c \in DOMAIN SURFACE} \cup {PRESSURE[c] : c \in DOMAIN PRESSURE}

InitUrl ==
    /\ pc = "call rda_url"
    /\ steps = <<>>
    /\ field_type = Unbound /\ choice = Unbound
    /\ \E e \in Entries :
         /\ domain = e[1] /\ code = e[2] /\ vname = e[3]
         /\ units = e[4] /\ cmap = e[5]
    /\ plevel = Unbound
    /\ selected_date \in Dates
    /\ animate = Unbound
    /\ day_only = Unbound /\ step_hours = Unbound /\ selected_hour = Unbound
    /\ target_datetime = Unbound
    /\ url = Unbound /\ ds = Unbound /\ varname = Unbound
    /\ da_all = Unbound /\ da = Unbound /\ da_anim = Unbound
    /\ shown = {} /\ fig = Unbound
    /\ names = {"domain", "code", "vname", "selected_date"}
    /\ name_error = FALSE

CallRdaUrl ==
    /\ pc = "call rda_url"
    /\ url' = rda_url(domain, code, vname, selected_date)
    /\ Bind({"url"})
    /\ pc' = "returned"
    /\ UNCHANGED <<steps, sidebar, units, target_datetime, ds, varname, da_all,
                   da, da_anim, page, name_error>>

NextUrl == CallRdaUrl

SpecUrl == InitUrl /\ [][NextUrl]_vars

-----------------------------------------------------------------------------
(* find_var on its own: called with the vname of a table entry and a       *)
(* dataset holding any of a few keys                                       *)

\* keys a dataset may hold: the three spellings, the short name as the
\* table writes it, "var_" + short, and a coordinate
CandidateKeys(short) ==
    LET ks == Spellings(short)
    IN  {ks[1], ks[2], ks[3], short, <<"v","a","r","_">> \o short,
         <<"t","i","m","e">>}

InitFind ==
    /\ pc = "call find_var"
    /\ steps = <<>>
    /\ field_type = Unbound /\ choice = Unbound
    /\ \E e \in Entries :
         /\ domain = e[1] /\ code = e[2] /\ vname = e[3]
         /\ units = e[4] /\ cmap = e[5]
         /\ \E keys \in SUBSET CandidateKeys(e[3]) :
              ds = [keys |-> keys]
    /\ plevel = Unbound
    /\ selected_date = Unbound
    /\ animate = Unbound
    /\ day_only = Unbound /\ step_hours = Unbound /\ selected_hour = Unbound
    /\ target_datetime = Unbound
    /\ url = Unbound /\ varname = Unbound
    /\ da_all = Unbound /\ da = Unbound /\ da_anim = Unbound
    /\ shown = {} /\ fig = Unbound
    /\ names = {"vname", "ds"}
    /\ name_error = FALSE

CallFindVar ==
    /\ pc = "call find_var"
    /\ LET k == find_var(ds.keys, vname)
       IN  /\ varname' = k
           /\ IF k = KeyError
              THEN pc' = "raised" /\ UNCHANGED names
              ELSE pc' = "returned" /\ Bind({"varname"})
    /\ UNCHANGED <<steps, sidebar, units, target_datetime, url, ds, da_all,
                   da, da_anim, page, name_error>>

NextFind == CallFindVar

SpecFind == InitFind /\ [][NextFind]_vars

-----------------------------------------------------------------------------
(* Properties of rda_url (checked under SpecUrl) *)

\* fixed-width decimal fields, written digit by digit
YYYY(y) == Digit(y \div 1000) \o Digit((y \div 100) % 10)
           \o Digit((y \div 10) % 10) \o Digit(y % 10)
TwoDigits(n) == Digit(n \div 10) \o Digit(n % 10)

\* the number of days of a month, by the calendar rule
DaysOfMonth(y, m) ==
    CASE m \in {1, 3, 5, 7, 8, 10, 12} -> 31
      [] m \in {4, 6, 9, 11}           -> 30
      [] m = 2 -> IF (y % 4 = 0 /\ y % 100 # 0) \/ y % 400 = 0 THEN 29 ELSE 28

\* C1: for a surface variable the URL returned by rda_url is
\* base + "e5.oper.an.sfc/YYYYMM/" +
\* "e5.oper.an.sfc.128_<code>_<var>.ll025sc.YYYYMM0100_YYYYMM<LL>23.nc" with LL
\* the number of days of the month (29 for February exactly in leap years),
\* and every date of the same year and month gives that same URL.
C1_SurfaceUrl ==
    (pc = "returned" /\ domain = "sfc") =>
        LET y  == selected_date.year
            m  == selected_date.month
            ym == YYYY(y) \o TwoDigits(m)
        IN  /\ url = base \o "e5.oper.an.sfc/" \o ym \o "/"
                     \o "e5.oper.an.sfc.128_" \o code \o "_" \o Join(vname)
                     \o ".ll025sc." \o ym \o "0100_"
                     \o ym \o TwoDigits(DaysOfMonth(y, m)) \o "23.nc"
            /\ \A d \in Dates :
                 (d.year = y /\ d.month = m) =>
                     rda_url(domain, code, vname, d) = url

\* a surface URL was built for 29 February of a leap year
C1_Witness ==
    /\ pc = "returned" /\ domain = "sfc"
    /\ selected_date.month = 2 /\ selected_date.day = 29

\* for every entry of PRESSURE, rda_url gives as many URLs as there are
\* dates: no two dates share one
DistinctDatesDistinctUrls ==
    \A c \in DOMAIN PRESSURE :
        LET e == PRESSURE[c]
        IN  Cardinality({rda_url(e[1], e[2], e[3], d) : d \in Dates})
                = Cardinality(Dates)

\* C2: for a pressure-level variable the URL returned by rda_url is
\* base + "e5.oper.an.pl/YYYYMM/" +
\* "e5.oper.an.pl.128_<code>_<var>.ll025<extra>.YYYYMMDD00_YYYYMMDD23.nc" with
\* month and day zero-padded, <extra> "uv" exactly for u and v and "sc" for
\* the other PRESSURE variables, and no other date gives the same URL.
C2_PressureUrl ==
    (pc = "returned" /\ domain # "sfc") =>
        LET y     == selected_date.year
            m     == selected_date.month
            ym    == YYYY(y) \o TwoDigits(m)
            ymd   == ym \o TwoDigits(selected_date.day)
            extra == IF Join(vname) \in {"u", "v"} THEN "uv" ELSE "sc"
        IN  /\ url = base \o "e5.oper.an.pl/" \o ym \o "/"
                     \o "e5.oper.an.pl.128_" \o code \o "_" \o Join(vname)
                     \o ".ll025" \o extra \o "."
                     \o ymd \o "00_" \o ymd \o "23.nc"
            /\ DistinctDatesDistinctUrls

\* a pressure-level URL was built for u on a one-digit day of a one-digit month
C2_Witness ==
    /\ pc = "returned" /\ domain = "pl" /\ vname = <<"u">>
    /\ selected_date.month < 10 /\ selected_date.day < 10

-----------------------------------------------------------------------------
(* Properties of find_var (checked under SpecFind) *)

\* the upper-case spelling of each short name of the tables, written out
UpperCased(short) ==
    LET n == Join(short)
    IN  CASE n = "sstk" -> <<"S","S","T","K">>
          [] n = "cape" -> <<"C","A","P","E">>
          [] n = "z"    -> <<"Z">>
          [] n = "sp"   -> <<"S","P">>
          [] n = "msl"  -> <<"M","S","L">>
          [] n = "10u"  -> <<"1","0","U">>
          [] n = "10v"  -> <<"1","0","V">>
          [] n = "2t"   -> <<"2","T">>
          [] n = "pv"   -> <<"P","V">>
          [] n = "t"    -> <<"T">>
          [] n = "u"    -> <<"U">>
          [] n = "v"    -> <<"V">>
          [] n = "q"    -> <<"Q">>
          [] n = "w"    -> <<"W">>
          [] n = "vo"   -> <<"V","O">>
          [] n = "d"    -> <<"D">>
          [] n = "r"    -> <<"R">>
          [] n = "o3"   -> <<"O","3">>

\* the upper-case spelling with "10" replaced by "10M", written out
With10M(short) ==
    LET n == Join(short)
    IN  CASE n = "10u" -> <<"1","0","M","U">>
          [] n = "10v" -> <<"1","0","M","V">>
          [] OTHER     -> UpperCased(short)

\* C3: find_var tries short upper-cased, then "VAR_" + that, then that with
\* "10" replaced by "10M"; it returns the first of them that is a key of the
\* dataset, and raises KeyError exactly when none of them is a key.
C3_FindVar ==
    (pc \in {"returned", "raised"}) =>
        LET k1 == UpperCased(vname)
            k2 == <<"V","A","R","_">> \o k1
            k3 == With10M(vname)
            keys == ds.keys
        IN  /\ (pc = "raised") <=> (k1 \notin keys /\ k2 \notin keys /\ k3 \notin keys)
            /\ pc = "raised" => varname = KeyError
            /\ pc = "returned" =>
                 /\ varname \in keys
                 /\ varname \in {k1, k2, k3}
                 /\ k1 \in keys => varname = k1
                 /\ (k1 \notin keys /\ k2 \in keys) => varname = k2

\* "VAR_10U" and "10MU" are both keys, "10U" is not, and VAR_10U was returned
C3_Witness ==
    /\ pc = "returned" /\ vname = <<"1","0","u">>
    /\ <<"1","0","U">> \notin ds.keys
    /\ <<"1","0","M","U">> \in ds.keys
    /\ varname = <<"V","A","R","_","1","0","U">>

-----------------------------------------------------------------------------
(* Properties of the script run (checked under Spec) *)

\* the stages of a run that reaches the plot, in the order of the script
Stages == <<"pick", "url", "open", "find", "level", "convert", "time",
            "limits", "plot">>

IsPrefix(s, t) == Len(s) <= Len(t) /\ SubSeq(t, 1, Len(s)) = s

Occurs(x, s) == \E i \in 1..Len(s) : s[i] = x

\* the stages run in the script's order; a figure exists only after all of
\* them; a run whose load stage raised has no colour-bar controls and no
\* figure, and once it has shown the load error it has stopped
C4_Ordered ==
    /\ IsPrefix(steps, Stages)
    /\ ("figure" \in shown \/ Bound("fig") \/ pc \in {"caption", "done"})
           => steps = Stages
    /\ pc = "except" =>
           /\ "Colour-bar limits" \notin shown
           /\ "figure" \notin shown /\ ~Bound("fig")
    /\ "Failed to load data" \in shown =>
           /\ pc = "stopped"
           /\ "Colour-bar limits" \notin shown
           /\ "figure" \notin shown /\ ~Bound("fig")
           /\ ~Occurs("limits", steps) /\ ~Occurs("plot", steps)

\* the step taken after a raise in the load stage shows the error and stops
C4_RaiseStops ==
    pc = "except" => (pc' = "stopped" /\ "Failed to load data" \in shown')

\* C4: in every run the stages happen in the order pick, URL, open, find,
\* level/convert/time, (limits,) plot, the plot is reached only after all
\* earlier stages succeeded, and a raise inside the load stage leads to the
\* "Failed to load data" error and a stop with no colour-bar controls and no
\* figure in that run.
C4_LoadThenPlot == []C4_Ordered /\ [][C4_RaiseStops]_vars

\* find_var raised KeyError after the dataset was opened, and the run stopped
\* with the load error on the page
C4_Witness ==
    /\ pc = "stopped" /\ "Failed to load data" \in shown
    /\ steps = <<"pick", "url", "open">>

\* hours 0, N, 2N, ... (< 24) of day d, as time stamps
HoursOfDay(d, N) ==
    [k \in 1..((24 + N - 1) \div N) |-> (d - 1) * 24 + (k - 1) * N]

Increasing(t) == \A i \in 1..(Len(t) - 1) : t[i] < t[i + 1]

Range(t) == {t[i] : i \in 1..Len(t)}

\* C5: for a file holding every hour of its span and a step N in 1..24, with
\* "only selected day" checked the frames are exactly the hours 0, N, 2N, ...
\* (< 24) of the selected day in increasing order, ceil(24/N) of them and
\* never more than 24; unchecked they are every N-th hour of the whole file,
\* at most 744 for a surface file, and for a pressure-level file the same
\* frames as with the box checked.
C5_AnimationFrames ==
    (Bound("da_anim") /\ ds.time = FileSpan(domain, selected_date)) =>
        LET t    == da_anim.time
            N    == step_hours
            d    == selected_date.day
            span == ds.time
        IN  /\ N \in 1..24
            /\ day_only =>
                 /\ Len(t) = (24 + N - 1) \div N
                 /\ Len(t) <= 24
                 /\ \A k \in 1..Len(t) :
                      /\ (t[k] \div 24) + 1 = d
                      /\ t[k] % 24 = (k - 1) * N
            /\ ~day_only =>
                 /\ Increasing(t)
                 /\ Range(t) = {x \in Range(span) : (x - span[1]) % N = 0}
                 /\ domain = "sfc" => Len(t) <= 744
                 /\ domain = "pl" => t = HoursOfDay(d, N)
            /\ Bound("fig") =>
                 /\ fig.kind = "animation"
                 /\ Len(fig.frames) = Len(t)
                 /\ \A k \in 1..Len(t) :
                      /\ fig.frames[k].z = t[k]
                      /\ fig.frames[k].name =
                             YYYY(selected_date.year) \o "-"
                             \o TwoDigits(selected_date.month) \o "-"
                             \o TwoDigits((t[k] \div 24) + 1) \o "T"
                             \o TwoDigits(t[k] % 24)

\* a day-only animation of a later day of a monthly file, sampled every 5
\* hours, was drawn with its 5 frames
C5_Witness ==
    /\ pc = "done" /\ Bound("da_anim") /\ domain = "sfc"
    /\ ds.time = FileSpan(domain, selected_date)
    /\ day_only /\ step_hours = 5 /\ selected_date.day > 1
    /\ Len(fig.frames) = 5

\* the run is past the load stage: at a statement of line 193 or later
PastLoad ==
    \/ pc \in {"colourbar", "plot", "caption", "done"}
    \/ pc = "stopped" /\ "Failed to load data" \notin shown

\* the mode guards, wherever the names are bound
ModeGuards ==
    /\ ~name_error
    /\ pc \notin {"field", "date"} =>
           /\ Bound("animate") /\ Bound("selected_hour")
           /\ (selected_hour = None) <=> animate
           /\ Bound("day_only") <=> animate
           /\ Bound("step_hours") <=> animate
    /\ pc \notin {"field", "date", "target"} =>
           /\ Bound("target_datetime")
           /\ (target_datetime # None) <=> ~animate
    /\ Bound("da") => ~animate
    /\ Bound("da_anim") => animate

\* C6 as stated: at the end of every run selected_hour is None exactly when
\* animate, target_datetime is set exactly when not animate, day_only and
\* step_hours are bound exactly when animate, da is bound exactly when not
\* animate and da_anim exactly when animate, and no statement read an
\* unbound name.
C6_AsStated ==
    (pc \in {"done", "stopped"}) =>
        /\ ModeGuards
        /\ Bound("da") <=> ~animate
        /\ Bound("da_anim") <=> animate

\* C6 amended: the mode guards hold in every run, da is bound only when not
\* animate and da_anim only when animate, and in every run whose load stage
\* completed without an exception da is bound exactly when not animate and
\* da_anim exactly when animate; no statement reads an unbound name.
C6_ModeGuarded ==
    /\ ModeGuards
    /\ PastLoad =>
           /\ Bound("da") <=> ~animate
           /\ Bound("da_anim") <=> animate

\* an animation run finished: da_anim bound and read, da never bound
C6_Witness ==
    /\ pc = "done" /\ animate /\ Bound("da_anim") /\ ~Bound("da")
    /\ selected_hour = None /\ target_datetime = None

\* the units column of the table entry the run picked
TableUnits ==
    IF field_type = "Surface" THEN SURFACE[choice][4] ELSE PRESSURE[choice][4]

\* C7: the offset is subtracted exactly for sstk, 2t, t with label "degC",
\* the division by 100 is applied exactly for sp, msl with label "hPa", no
\* variable gets both, every other variable is passed through with the label
\* of its table entry, and the label handed to the plot equals the units
\* column of the SURFACE/PRESSURE table for every variable of both tables.
C7_UnitsAsStated ==
    Bound("fig") =>
        LET n   == Join(vname)
            ops == fig.ops
        IN  /\ Occurs("- 273.15", ops) <=> n \in {"sstk", "2t", "t"}
            /\ Occurs("/ 100.0", ops) <=> n \in {"sp", "msl"}
            /\ Len(ops) <= 1
            /\ n \in {"sstk", "2t", "t"} => fig.colour = "degC"
            /\ n \in {"sp", "msl"} => fig.colour = "hPa"
            /\ fig.colour = TableUnits

\* What the run does hold for the units: the conversions and their labels go
\* by vname as stated, every unconverted variable keeps the label of its
\* table entry, and the label handed to the plot differs from the units
\* column exactly for the pressure-level "Temperature" ("K" in the table,
\* "degC" on the plot).
C7_LabelDiffersOnlyForTemperature ==
    Bound("fig") =>
        LET n   == Join(vname)
            ops == fig.ops
        IN  /\ Occurs("- 273.15", ops) <=> n \in {"sstk", "2t", "t"}
            /\ Occurs("/ 100.0", ops) <=> n \in {"sp", "msl"}
            /\ Len(ops) <= 1
            /\ n \in {"sstk", "2t", "t"} => fig.colour = "degC"
            /\ n \in {"sp", "msl"} => fig.colour = "hPa"
            /\ n \notin {"sstk", "2t", "t", "sp", "msl"} => fig.colour = TableUnits
            /\ (fig.colour = TableUnits) <=> (choice # "Temperature")

====
